---- MODULE Spec2Model ----
(***************************************************************************)
(* A model of gmplib.parameters: the JSON parameter loader                 *)
(* (read_json_file) and the materializer (Parameters and                   *)
(* ParametersNestedGroup); of gmplib.save: create_dir, create_directories, *)
(* export_plots and export_plot; and of GraphingBase.create_figure of      *)
(* gmplib.plot.                                                            *)
(*                                                                         *)
(* Python dicts are modelled as sequences of entries [k, v] with distinct  *)
(* keys, in insertion order.  Python values are records [t, n, s, g]: t is *)
(* the type tag, n the number of an int, s the text of a str (a sequence   *)
(* of tokens) and g the entries of a dict.                                 *)
(***************************************************************************)
EXTENDS Integers, Sequences, FiniteSets, TLC

VARIABLES
    files,            \* loader: the document behind each of filepaths, in list order
    idx,              \* loader: number of files read_json_file has merged completely
    parameters_dict,  \* loader: the dict read_json_file accumulates
    opened,           \* loader: indices of the files read_json_file has opened
    lpc,              \* loader: "loop", "returned" or "raised"
    lerr,             \* loader: the exception raised, "none" otherwise
    lret,             \* loader: what the call returned to its caller
    imported_parameters,   \* Parameters: the mapping passed in
    evaluations,           \* Parameters: dict from group name to its evaluated list
    sequence,              \* Parameters: the group names to construct first
    imported_parameters_,  \* Parameters.__init__: the copy the named groups are popped from
    root,             \* the attributes of the Parameters object (name -> group attributes)
    cur,              \* the ParametersNestedGroup whose __init__ is running
    si,               \* passes completed of the loop over sequence
    ri,               \* passes completed of the loop over imported_parameters_
    mpc,              \* Parameters.__init__: "loops", "group", "returned" or "raised"
    merr,             \* the exception Parameters.__init__ raised, "none" otherwise
    built,            \* names of the groups whose __init__ was entered, in order
    dirs,             \* filesystem: the absolute paths that are directories
    regfiles,         \* filesystem: the absolute paths that are regular files
    dop,              \* save: "create_dir" or "create_directories", the function called
    dir_,             \* create_dir: its argument, a path (sequence of components)
    results_path,     \* create_directories: tuple of path components
    results_dir,      \* create_directories: name of the target directory
    dcalls,           \* create_dir: calls of create_dir(dir_) completed
    dpc,              \* save: "call", "parent", "target", "returned" or "raised"
    derr,             \* save: the exception raised, "none" otherwise
    dret,             \* save: the value the last call returned
    fdict,            \* GraphingBase: the figures dictionary
    nfigs,            \* number of figures plt.figure() has made
    returned,         \* the figures create_figure returned, with their names, in order
    file_types,       \* export_plots: its argument file_types
    suffix,           \* export_plots: its argument suffix
    ek,               \* export_plots: passes of the inner loop completed
    calls,            \* the invocations of export_plot, in order
    written,          \* names of the files written into results_dir
    ppc,              \* "figures", "export", "returned" or "raised"
    perr,             \* the exception export_plots raised, "none" otherwise
    layout,           \* image: which paste_images (or combine_images_vertically) runs
    image_list,       \* image: self.image_list or self.page_list, the images in bundle order
    size,             \* image: width and height of every image
    spacing,          \* image: the padding between images
    do_align_right,   \* image: align the images along the right margin
    combo,            \* image: size of the blank combo_image or combo_page
    loop_list,        \* image: the list of images the loop goes through
    sizes,            \* image: y_sizes or x_sizes, the list zipped with it
    offset,           \* image: y_offset or x_offset
    ip,               \* image: passes of the loop completed
    pastes,           \* image: the calls of paste or mergeTranslatedPage, in order
    ipc,              \* image: "start", "loop", "done" or "raised"
    ierr              \* image: the exception raised, "none" otherwise

loadVars == <<files, idx, parameters_dict, opened, lpc, lerr, lret>>
matVars == <<imported_parameters, evaluations, sequence, imported_parameters_,
             root, cur, si, ri, mpc, merr, built>>
dirVars == <<dirs, regfiles, dop, dir_, results_path, results_dir, dcalls,
             dpc, derr, dret>>
plotVars == <<fdict, nfigs, returned, file_types, suffix, ek, calls, written,
              ppc, perr>>
imageVars == <<layout, image_list, size, spacing, do_align_right, combo,
               loop_list, sizes, offset, ip, pastes, ipc, ierr>>
vars == <<loadVars, matVars, dirVars, plotVars, imageVars>>
\* what read_json_file leaves alone, and what Parameters leaves alone
notLoadVars == <<matVars, dirVars, plotVars, imageVars>>
notMatVars == <<loadVars, dirVars, plotVars, imageVars>>
\* what create_dir and create_directories leave alone
notDirVars == <<loadVars, matVars, plotVars, imageVars>>
\* what create_figure and export_plots leave alone
notPlotVars == <<loadVars, matVars, dirVars, imageVars>>
\* what paste_images leaves alone
notImageVars == <<loadVars, matVars, dirVars, plotVars>>

(***************************************************************************)
(* Bounds of the model.                                                    *)
(***************************************************************************)
MaxFiles == 2
MaxSeq == 2

(***************************************************************************)
(* Python values.                                                          *)
(***************************************************************************)
IntV(i) == [t |-> "int", n |-> i, s |-> <<>>, g |-> <<>>]
StrV(toks) == [t |-> "str", n |-> 0, s |-> toks, g |-> <<>>]
NoneV == [t |-> "none", n |-> 0, s |-> <<>>, g |-> <<>>]
DictV(entries) == [t |-> "dict", n |-> 0, s |-> <<>>, g |-> entries]
\* a SymPy expression, by its text
SymV(toks) == [t |-> "sym", n |-> 0, s |-> toks, g |-> <<>>]
\* a reference to an object: <<"self">>, <<"parent">> or <<"parent", group name>>
ObjV(path) == [t |-> "obj", n |-> 0, s |-> path, g |-> <<>>]

(***************************************************************************)
(* Python dict operations on a sequence of entries.                        *)
(***************************************************************************)
Keys(d) == {d[i].k : i \in 1..Len(d)}
KeyList(d) == [i \in 1..Len(d) |-> d[i].k]
Has(d, key) == \E i \in 1..Len(d) : d[i].k = key
Get(d, key) == d[CHOOSE i \in 1..Len(d) : d[i].k = key].v
\* d[key] = val: an existing key keeps its position, a new key goes last
Put(d, key, val) ==
    IF Has(d, key)
    THEN [i \in 1..Len(d) |-> IF d[i].k = key THEN [k |-> key, v |-> val] ELSE d[i]]
    ELSE Append(d, [k |-> key, v |-> val])
\* d.pop(key) of a key that is present
Pop(d, key) == SelectSeq(d, LAMBDA e : e.k # key)

(***************************************************************************)
(* read_json_file: the merge of one parsed document into parameters_dict.  *)
(* The result is the dict as the loop left it and the exception raised     *)
(* ("none" when the loop ran to its end).                                  *)
(***************************************************************************)
\* the group is replaced by the later file's group (dict.update at top level)
MergeSubWholesale(pd, key, subitems) ==
    [d |-> IF subitems = <<>> THEN pd ELSE Put(pd, key, DictV(subitems)),
     err |-> "none"]

RECURSIVE MergeSub(_, _, _)
\* the loop over item[1].items()
MergeSub(pd, key, subitems) ==
    IF subitems = <<>> THEN [d |-> pd, err |-> "none"]
    ELSE LET subitem == Head(subitems) IN
         IF Has(pd, key)
         THEN IF Get(pd, key).t = "dict"
              THEN MergeSub(Put(pd, key,
                                DictV(Put(Get(pd, key).g, subitem.k, subitem.v))),
                            key, Tail(subitems))
              \* parameters_dict[key] is no dict: it has no update method
              ELSE [d |-> pd, err |-> "AttributeError"]
         ELSE MergeSub(Put(pd, key, DictV(<<subitem>>)), key, Tail(subitems))

RECURSIVE MergeFileKeepFirst(_, _)
\* a top-level non-dict value does not replace a key already set (setdefault)
MergeFileKeepFirst(pd, items) ==
    IF items = <<>> THEN [d |-> pd, err |-> "none"]
    ELSE LET item == Head(items) IN
         IF item.v.t = "dict"
         THEN LET r == MergeSub(pd, item.k, item.v.g) IN
              IF r.err # "none" THEN r ELSE MergeFileKeepFirst(r.d, Tail(items))
         ELSE MergeFileKeepFirst(IF Has(pd, item.k) THEN pd
                                 ELSE Put(pd, item.k, item.v), Tail(items))

RECURSIVE MergeFile(_, _)
\* the loop over the document's top-level items
MergeFile(pd, items) ==
    IF items = <<>> THEN [d |-> pd, err |-> "none"]
    ELSE LET item == Head(items) IN
         IF item.v.t = "dict"
         THEN LET r == MergeSub(pd, item.k, item.v.g) IN
              IF r.err # "none" THEN r ELSE MergeFile(r.d, Tail(items))
         ELSE MergeFile(Put(pd, item.k, item.v), Tail(items))

(***************************************************************************)
(* The documents the loader is run on.  A file is missing, holds text that *)
(* is no JSON, or holds a JSON object whose top-level values are scalars   *)
(* or groups of scalars.  Keys of one document are listed in the order of  *)
(* TopOrder and SubOrder.  Key "g" takes every value of TopValueSample,    *)
(* key "x" the values of SmallValueSample.                                 *)
(***************************************************************************)
TopOrder == <<"g", "x">>
SubOrder == <<"a", "b">>
ScalarSample == {IntV(1), StrV(<<"None">>)}

Range(seq) == {seq[i] : i \in 1..Len(seq)}
AsItems(fn, order) ==
    LET ks == SelectSeq(order, LAMBDA key : key \in DOMAIN fn)
    IN  [i \in 1..Len(ks) |-> [k |-> ks[i], v |-> fn[ks[i]]]]
GroupSample ==
    {AsItems(fn, SubOrder) :
        fn \in UNION {[S -> ScalarSample] : S \in SUBSET Range(SubOrder)}}
TopValueSample == ScalarSample \cup {DictV(grp) : grp \in GroupSample}
SmallValueSample ==
    {IntV(1), DictV(<<>>), DictV(<<[k |-> "a", v |-> IntV(1)]>>)}
DocumentSample ==
    {AsItems(fn, TopOrder) :
        fn \in UNION {{f \in [S -> TopValueSample \cup SmallValueSample] :
                          \A key \in S : key = "g" \/ f[key] \in SmallValueSample} :
                      S \in SUBSET Range(TopOrder)}}
FileSample ==
    {[st |-> "ok", items |-> doc] : doc \in DocumentSample}
    \cup {[st |-> "missing", items |-> <<>>], [st |-> "malformed", items |-> <<>>]}

NoReturn == [has |-> FALSE, d |-> <<>>]
Returned(d) == [has |-> TRUE, d |-> d]

LoadInit ==
    /\ files \in UNION {[1..n -> FileSample] : n \in 0..MaxFiles}
    /\ idx = 0
    /\ parameters_dict = <<>>
    /\ opened = {}
    /\ lpc = "loop"
    /\ lerr = "none"
    /\ lret = NoReturn

\* open() of a path that names no readable file
OpenFails ==
    /\ lpc = "loop" /\ idx < Len(files)
    /\ files[idx + 1].st = "missing"
    /\ opened' = opened \cup {idx + 1}
    /\ lpc' = "raised" /\ lerr' = "FileNotFoundError"
    /\ UNCHANGED <<files, idx, parameters_dict, lret>>
    /\ UNCHANGED notLoadVars

\* the bad file is skipped and the loop goes on (try/except around the read)
LoadFailsSkip ==
    /\ lpc = "loop" /\ idx < Len(files)
    /\ files[idx + 1].st = "malformed"
    /\ opened' = opened \cup {idx + 1}
    /\ idx' = idx + 1
    /\ UNCHANGED <<files, parameters_dict, lpc, lerr, lret>>
    /\ UNCHANGED notLoadVars

\* json.load() of a file that holds no JSON document
LoadFails ==
    /\ lpc = "loop" /\ idx < Len(files)
    /\ files[idx + 1].st = "malformed"
    /\ opened' = opened \cup {idx + 1}
    /\ lpc' = "raised" /\ lerr' = "JSONDecodeError"
    /\ UNCHANGED <<files, idx, parameters_dict, lret>>
    /\ UNCHANGED notLoadVars

\* one pass of the loop over filepaths on a file that parses
ReadFile ==
    /\ lpc = "loop" /\ idx < Len(files)
    /\ files[idx + 1].st = "ok"
    /\ opened' = opened \cup {idx + 1}
    /\ LET r == MergeFile(parameters_dict, files[idx + 1].items) IN
           /\ parameters_dict' = r.d
           /\ IF r.err = "none"
              THEN idx' = idx + 1 /\ UNCHANGED <<lpc, lerr>>
              ELSE lpc' = "raised" /\ lerr' = r.err /\ UNCHANGED idx
    /\ UNCHANGED <<files, lret>>
    /\ UNCHANGED notLoadVars

\* return parameters_dict
LoadReturn ==
    /\ lpc = "loop" /\ idx = Len(files)
    /\ lpc' = "returned"
    /\ lret' = Returned(parameters_dict)
    /\ UNCHANGED <<files, idx, parameters_dict, opened, lerr>>
    /\ UNCHANGED notLoadVars

LoadNext == OpenFails \/ LoadFails \/ ReadFile \/ LoadReturn

\* read_json_file is not running
LoadIdle ==
    /\ files = <<>> /\ idx = 0 /\ parameters_dict = <<>> /\ opened = {}
    /\ lpc = "idle" /\ lerr = "none" /\ lret = NoReturn

(***************************************************************************)
(* ParametersNestedGroup.__init__: the value an item of the group is       *)
(* stored as.                                                              *)
(***************************************************************************)
\* s_value.startswith("sy.")
HasMarkerAtStart(toks) == toks # <<>> /\ toks[1] = "sy."
\* "sy." in s_value
HasMarker(toks) == \E i \in 1..Len(toks) : toks[i] = "sy."
\* s_value.replace("sy.", "", 1): the first occurrence alone is removed
StripFirstMarker(toks) ==
    IF \E i \in 1..Len(toks) : toks[i] = "sy."
    THEN LET first == CHOOSE i \in 1..Len(toks) :
                         toks[i] = "sy." /\ \A j \in 1..(i - 1) : toks[j] # "sy."
         IN  SubSeq(toks, 1, first - 1) \o SubSeq(toks, first + 1, Len(toks))
    ELSE toks
\* s_value.replace("sy.", ""): every occurrence is removed
StripMarker(toks) == SelectSeq(toks, LAMBDA tok : tok # "sy.")
\* parse_expr(text): the expression of the text; the empty text is no expression
ParseExpr(toks) ==
    IF toks = <<>> THEN [err |-> "SyntaxError", v |-> NoneV]
    ELSE [err |-> "none", v |-> SymV(toks)]

\* every str is handed to parse_expr
MaterializeAllStrings(s_value) ==
    IF s_value.t = "str"
    THEN ParseExpr(StripMarker(s_value.s))
    ELSE [err |-> "none", v |-> s_value]

\* the text "None" is stored as it is
MaterializeNoSentinel(s_value) ==
    IF s_value.t = "str" /\ HasMarker(s_value.s)
    THEN ParseExpr(StripMarker(s_value.s))
    ELSE [err |-> "none", v |-> s_value]

Materialize(s_value) ==
    IF s_value.t = "str" /\ HasMarker(s_value.s)
    THEN ParseExpr(StripMarker(s_value.s))
    ELSE [err |-> "none",
          v |-> IF s_value = StrV(<<"None">>) THEN NoneV ELSE s_value]

(***************************************************************************)
(* eval(str(getattr(self, attr))) inside ParametersNestedGroup.__init__.   *)
(* The text is a sequence of tokens; the expressions understood are        *)
(*     expr  ::= chain | chain "*" int                                     *)
(*     chain ::= int | name ("." name)*                                    *)
(* and any other text is a SyntaxError.                                    *)
(***************************************************************************)
IntLiterals == 0..9
IsIntTok(tok) == \E i \in IntLiterals : ToString(i) = tok
IntOfTok(tok) == CHOOSE i \in IntLiterals : ToString(i) = tok
IsName(tok) == tok \notin {".", "*", "+", "sy."} /\ ~IsIntTok(tok)

\* str(value)
StrOf(val) ==
    CASE val.t = "int" -> <<ToString(val.n)>>
      [] val.t = "none" -> <<"None">>
      [] val.t = "str" -> val.s
      [] val.t = "sym" -> val.s
      [] OTHER -> <<"<", "object", ">">>

IsChain(toks) ==
    /\ Len(toks) % 2 = 1
    /\ \A i \in 1..Len(toks) : IF i % 2 = 1 THEN IsName(toks[i]) ELSE toks[i] = "."
IsProduct(toks) == Len(toks) >= 3 /\ toks[Len(toks) - 1] = "*"
Operand(toks) == IF IsProduct(toks) THEN SubSeq(toks, 1, Len(toks) - 2) ELSE toks
WellFormed(toks) ==
    /\ toks # <<>>
    /\ IsProduct(toks) => IsIntTok(toks[Len(toks)])
    /\ \/ Len(Operand(toks)) = 1 /\ IsIntTok(Operand(toks)[1])
       \/ IsChain(Operand(toks))

\* the names bound where eval runs: the arguments self and parent of
\* __init__ and its local p (= self); None is the constant
LookupNameNoParent(name) ==
    CASE name \in {"self", "p"} -> [err |-> "none", v |-> ObjV(<<"self">>)]
      [] name = "None" -> [err |-> "none", v |-> NoneV]
      [] OTHER -> [err |-> "NameError", v |-> NoneV]

LookupName(name) ==
    CASE name \in {"self", "p"} -> [err |-> "none", v |-> ObjV(<<"self">>)]
      [] name = "parent" -> [err |-> "none", v |-> ObjV(<<"parent">>)]
      [] name = "None" -> [err |-> "none", v |-> NoneV]
      [] OTHER -> [err |-> "NameError", v |-> NoneV]

\* getattr(val, name), with self the attributes of the group under
\* construction and parent the attributes of the Parameters object
GetAttr(val, name, self, parent) ==
    CASE val.t = "obj" /\ val.s = <<"self">> ->
            IF Has(self, name) THEN [err |-> "none", v |-> Get(self, name)]
            ELSE [err |-> "AttributeError", v |-> NoneV]
      [] val.t = "obj" /\ val.s = <<"parent">> ->
            IF Has(parent, name) THEN [err |-> "none", v |-> ObjV(<<"parent", name>>)]
            ELSE [err |-> "AttributeError", v |-> NoneV]
      [] val.t = "obj" /\ Len(val.s) = 2 ->
            IF Has(Get(parent, val.s[2]), name)
            THEN [err |-> "none", v |-> Get(Get(parent, val.s[2]), name)]
            ELSE [err |-> "AttributeError", v |-> NoneV]
      [] OTHER -> [err |-> "AttributeError", v |-> NoneV]

RECURSIVE EvalAttrs(_, _, _, _)
\* the attribute references ".name" of a chain, left to right
EvalAttrs(r, toks, self, parent) ==
    IF r.err # "none" \/ toks = <<>> THEN r
    ELSE EvalAttrs(GetAttr(r.v, toks[2], self, parent),
                   SubSeq(toks, 3, Len(toks)), self, parent)

EvalOperand(toks, self, parent) ==
    IF IsIntTok(toks[1]) THEN [err |-> "none", v |-> IntV(IntOfTok(toks[1]))]
    ELSE EvalAttrs(LookupName(toks[1]), Tail(toks), self, parent)

\* val * i
Times(val, i) ==
    CASE val.t = "int" -> [err |-> "none", v |-> IntV(val.n * i)]
      [] val.t = "str" ->
            [err |-> "none",
             v |-> StrV([j \in 1..(Len(val.s) * i) |-> val.s[((j - 1) % Len(val.s)) + 1]])]
      [] val.t = "sym" -> [err |-> "none", v |-> SymV(<<ToString(i), "*">> \o val.s)]
      [] OTHER -> [err |-> "TypeError", v |-> NoneV]

\* eval(text): the text is compiled first, so a SyntaxError comes before
\* any name is looked up
Eval(toks, self, parent) ==
    IF ~WellFormed(toks) THEN [err |-> "SyntaxError", v |-> NoneV]
    ELSE LET r == EvalOperand(Operand(toks), self, parent) IN
         IF r.err = "none" /\ IsProduct(toks)
         THEN Times(r.v, IntOfTok(toks[Len(toks)]))
         ELSE r

(***************************************************************************)
(* Parameters.__init__ and ParametersNestedGroup.__init__, one action per  *)
(* pass of each loop.                                                      *)
(***************************************************************************)
NoGroup == [name |-> "", src |-> <<>>, attrs |-> <<>>, pos |-> 0, epos |-> 0,
            phase |-> ""]

\* evaluations[group_name] when group_name is in evaluations.keys()
EvalList(name) == IF Has(evaluations, name) THEN Get(evaluations, name) ELSE <<>>

MatRaise(kind) == mpc' = "raised" /\ merr' = kind

\* __init__ begins with self.parent = parent
EnterGroupKeepParent(name, group_dict, phase) ==
    /\ built' = Append(built, name)
    /\ IF group_dict.t = "dict"
       THEN /\ cur' = [name |-> name, src |-> group_dict.g,
                       attrs |-> <<[k |-> "parent", v |-> ObjV(<<"parent">>)]>>,
                       pos |-> 0, epos |-> 0, phase |-> phase]
            /\ mpc' = "group" /\ UNCHANGED merr
       ELSE /\ cur' = [name |-> name, src |-> <<>>,
                       attrs |-> <<[k |-> "parent", v |-> ObjV(<<"parent">>)]>>,
                       pos |-> 0, epos |-> 0, phase |-> phase]
            /\ mpc' = "raised" /\ merr' = "AttributeError"

\* a top-level value that is no dict is taken for a group without items
EnterGroupScalarAsEmpty(name, group_dict, phase) ==
    /\ built' = Append(built, name)
    /\ cur' = [name |-> name,
               src |-> IF group_dict.t = "dict" THEN group_dict.g ELSE <<>>,
               attrs |-> <<>>, pos |-> 0, epos |-> 0, phase |-> phase]
    /\ mpc' = "group" /\ UNCHANGED merr

\* ParametersNestedGroup(self, group_name, group_dict, evaluations_) is
\* entered; parameters_dict.items() needs a dict
EnterGroup(name, group_dict, phase) ==
    /\ built' = Append(built, name)
    /\ IF group_dict.t = "dict"
       THEN /\ cur' = [name |-> name, src |-> group_dict.g, attrs |-> <<>>,
                       pos |-> 0, epos |-> 0, phase |-> phase]
            /\ mpc' = "group" /\ UNCHANGED merr
       ELSE /\ cur' = [name |-> name, src |-> <<>>, attrs |-> <<>>,
                       pos |-> 0, epos |-> 0, phase |-> phase]
            /\ MatRaise("AttributeError")

\* for group_name in sequence: group_dict = imported_parameters[group_name]
BeginNamedGroup ==
    /\ mpc = "loops" /\ si < Len(sequence)
    /\ LET name == sequence[si + 1] IN
           IF Has(imported_parameters, name)
           THEN EnterGroup(name, Get(imported_parameters, name), "seq")
           ELSE MatRaise("KeyError") /\ UNCHANGED <<cur, built>>
    /\ UNCHANGED <<imported_parameters, evaluations, sequence,
                   imported_parameters_, root, si, ri>>
    /\ UNCHANGED notMatVars

\* the groups that are left are taken from the mapping passed in, so a
\* named group is constructed again
RestItemsUnpopped == imported_parameters

\* for group_name, group_dict in imported_parameters_.items()
RestItems == imported_parameters_

BeginRestGroup ==
    /\ mpc = "loops" /\ si = Len(sequence) /\ ri < Len(RestItems)
    /\ EnterGroup(RestItems[ri + 1].k, RestItems[ri + 1].v, "rest")
    /\ UNCHANGED <<imported_parameters, evaluations, sequence,
                   imported_parameters_, root, si, ri>>
    /\ UNCHANGED notMatVars

\* one pass of: for s_key, s_value in parameters_dict.items(): setattr(...)
SetRawAttr ==
    /\ mpc = "group" /\ cur.pos < Len(cur.src)
    /\ LET item == cur.src[cur.pos + 1]
           r == Materialize(item.v)
       IN  IF r.err = "none"
           THEN /\ cur' = [cur EXCEPT !.attrs = Put(@, item.k, r.v), !.pos = @ + 1]
                /\ UNCHANGED <<mpc, merr>>
           ELSE MatRaise(r.err) /\ UNCHANGED cur
    /\ UNCHANGED <<imported_parameters, evaluations, sequence,
                   imported_parameters_, root, si, ri, built>>
    /\ UNCHANGED notMatVars

\* the evaluated attributes are computed as soon as __init__ is entered,
\* before the loop over the items
RawLoopDoneAtOnce == TRUE

\* the loop over the items of the group has ended
RawLoopDone == cur.pos = Len(cur.src)

\* an evaluation that raises is passed over and the attribute keeps its
\* stored value (try/except around eval)
EvalAttrSkipOnError ==
    /\ mpc = "group" /\ cur.pos = Len(cur.src) /\ cur.epos < Len(EvalList(cur.name))
    /\ LET attr == EvalList(cur.name)[cur.epos + 1]
           r == IF Has(cur.attrs, attr)
                THEN Eval(StrOf(Get(cur.attrs, attr)), cur.attrs, root)
                ELSE [err |-> "AttributeError", v |-> NoneV]
       IN  cur' = [cur EXCEPT !.attrs = IF r.err = "none" THEN Put(@, attr, r.v) ELSE @,
                              !.epos = @ + 1]
    /\ UNCHANGED <<imported_parameters, evaluations, sequence,
                   imported_parameters_, root, si, ri, built, mpc, merr>>
    /\ UNCHANGED notMatVars

\* the group is attached to the root before its __init__ runs, so that the
\* formulas reach the group's own attributes through the root as well
EvalAttrSeesOwnGroup ==
    /\ mpc = "group" /\ RawLoopDone /\ cur.epos < Len(EvalList(cur.name))
    /\ LET attr == EvalList(cur.name)[cur.epos + 1] IN
           IF ~Has(cur.attrs, attr)
           THEN MatRaise("AttributeError") /\ UNCHANGED cur
           ELSE LET r == Eval(StrOf(Get(cur.attrs, attr)), cur.attrs,
                              Put(root, cur.name, cur.attrs)) IN
                IF r.err = "none"
                THEN /\ cur' = [cur EXCEPT !.attrs = Put(@, attr, r.v), !.epos = @ + 1]
                     /\ UNCHANGED <<mpc, merr>>
                ELSE MatRaise(r.err) /\ UNCHANGED cur
    /\ UNCHANGED <<imported_parameters, evaluations, sequence,
                   imported_parameters_, root, si, ri, built>>
    /\ UNCHANGED notMatVars

\* every formula is evaluated over the attributes as the first loop stored
\* them: a result is not seen by the formulas evaluated after it
EvalAttrOnStoredValues ==
    /\ mpc = "group" /\ RawLoopDone /\ cur.epos < Len(EvalList(cur.name))
    /\ LET attr == EvalList(cur.name)[cur.epos + 1]
           stored == [i \in 1..Len(cur.src) |->
                        [k |-> cur.src[i].k, v |-> Materialize(cur.src[i].v).v]]
       IN  IF ~Has(cur.attrs, attr)
           THEN MatRaise("AttributeError") /\ UNCHANGED cur
           ELSE LET r == Eval(StrOf(Get(cur.attrs, attr)), stored, root) IN
                IF r.err = "none"
                THEN /\ cur' = [cur EXCEPT !.attrs = Put(@, attr, r.v), !.epos = @ + 1]
                     /\ UNCHANGED <<mpc, merr>>
                ELSE MatRaise(r.err) /\ UNCHANGED cur
    /\ UNCHANGED <<imported_parameters, evaluations, sequence,
                   imported_parameters_, root, si, ri, built>>
    /\ UNCHANGED notMatVars

\* one pass of: for attr in evaluations[group_name]:
\*     value = eval(str(getattr(self, attr))); setattr(p, attr, value)
EvalAttr ==
    /\ mpc = "group" /\ RawLoopDone /\ cur.epos < Len(EvalList(cur.name))
    /\ LET attr == EvalList(cur.name)[cur.epos + 1] IN
           IF ~Has(cur.attrs, attr)
           THEN MatRaise("AttributeError") /\ UNCHANGED cur
           ELSE LET r == Eval(StrOf(Get(cur.attrs, attr)), cur.attrs, root) IN
                IF r.err = "none"
                THEN /\ cur' = [cur EXCEPT !.attrs = Put(@, attr, r.v), !.epos = @ + 1]
                     /\ UNCHANGED <<mpc, merr>>
                ELSE MatRaise(r.err) /\ UNCHANGED cur
    /\ UNCHANGED <<imported_parameters, evaluations, sequence,
                   imported_parameters_, root, si, ri, built>>
    /\ UNCHANGED notMatVars

\* imported_parameters_ = imported_parameters: one dict under two names
PoppedFromCallersDict(popped) == popped

\* imported_parameters_ = copy(imported_parameters) is another dict object:
\* what the caller's dict is after imported_parameters_ became popped
PoppedFromCopy(popped) == imported_parameters

\* ParametersNestedGroup.__init__ returns: setattr(self, group_name, group),
\* and in the loop over sequence imported_parameters_.pop(group_name)
AttachGroup ==
    /\ mpc = "group" /\ RawLoopDone /\ cur.epos = Len(EvalList(cur.name))
    /\ root' = Put(root, cur.name, cur.attrs)
    /\ IF cur.phase = "seq"
       THEN IF Has(imported_parameters_, cur.name)
            THEN /\ imported_parameters_' = Pop(imported_parameters_, cur.name)
                 /\ imported_parameters' = PoppedFromCopy(imported_parameters_')
                 /\ si' = si + 1 /\ mpc' = "loops" /\ cur' = NoGroup
                 /\ UNCHANGED <<ri, merr>>
            ELSE /\ MatRaise("KeyError")
                 /\ UNCHANGED <<imported_parameters, imported_parameters_, si, ri, cur>>
       ELSE /\ ri' = ri + 1 /\ mpc' = "loops" /\ cur' = NoGroup
            /\ UNCHANGED <<imported_parameters, imported_parameters_, si, merr>>
    /\ UNCHANGED <<evaluations, sequence, built>>
    /\ UNCHANGED notMatVars

\* both loops have ended: the Parameters object is the caller's
MatReturn ==
    /\ mpc = "loops" /\ si = Len(sequence) /\ ri = Len(RestItems)
    /\ mpc' = "returned"
    /\ UNCHANGED <<imported_parameters, evaluations, sequence,
                   imported_parameters_, root, cur, si, ri, merr, built>>
    /\ UNCHANGED notMatVars

MatNext ==
    BeginNamedGroup \/ BeginRestGroup \/ SetRawAttr \/ EvalAttr \/ AttachGroup
    \/ MatReturn

\* Parameters is not being constructed
MatIdle ==
    /\ imported_parameters = <<>> /\ evaluations = <<>> /\ sequence = <<>>
    /\ imported_parameters_ = <<>> /\ root = <<>> /\ cur = NoGroup
    /\ si = 0 /\ ri = 0 /\ mpc = "idle" /\ merr = "none" /\ built = <<>>

(***************************************************************************)
(* The mappings Parameters is constructed from.  Up to three groups "a",   *)
(* "b", "c" in any order, each with an int item k; one of them, the        *)
(* subject, also has an item x, before or after k, whose value is one of   *)
(* XSample; evaluations is empty, or lists for the subject x, or an        *)
(* attribute w that the group does not have; "c" may be a top-level        *)
(* scalar instead of a group; sequence is any list of distinct names of    *)
(* at most MaxSeq names.                                                   *)
(***************************************************************************)
GroupNames == {"a", "b", "c"}
IntSample == {1, 2}
F_SelfK3 == StrV(<<"self", ".", "k", "*", "3">>)
F_ParentAK == StrV(<<"parent", ".", "a", ".", "k">>)
F_RootAK == StrV(<<"root", ".", "a", ".", "k">>)
F_SelfZ == StrV(<<"self", ".", "z">>)
F_Malformed == StrV(<<"self", ".", "*", "3">>)
T_Marked == StrV(<<"sy.", "k">>)
T_Unmarked == StrV(<<"k">>)
T_MarkedTwice == StrV(<<"sy.", "k", "*", "sy.", "2">>)
T_MarkedInside == StrV(<<"k", "*", "sy.", "2">>)
XSample == {F_SelfK3, F_ParentAK, F_RootAK, F_SelfZ, F_Malformed,
            StrV(<<"None">>), T_Marked, T_Unmarked, T_MarkedTwice, T_MarkedInside}
EvalSample(subj) ==
    {<<>>, <<[k |-> subj, v |-> <<"x">>]>>, <<[k |-> subj, v |-> <<"w">>]>>}
DistinctSeqs(S, n) ==
    {sq \in UNION {[1..m -> S] : m \in 0..n} :
        \A i \in 1..Len(sq) : \A j \in 1..Len(sq) : sq[i] = sq[j] => i = j}
SubjectGroup(kv, xv, xfirst) ==
    IF xfirst
    THEN DictV(<<[k |-> "x", v |-> xv], [k |-> "k", v |-> IntV(kv)]>>)
    ELSE DictV(<<[k |-> "k", v |-> IntV(kv)], [k |-> "x", v |-> xv]>>)
PlainGroup(kv) == DictV(<<[k |-> "k", v |-> IntV(kv)]>>)

MatInit ==
    /\ \E ord \in DistinctSeqs(GroupNames, Cardinality(GroupNames)) \ {<<>>} :
       \E subj \in Range(ord) :
       \E kv \in [Range(ord) -> IntSample] :
       \E xv \in XSample :
       \E xfirst \in BOOLEAN :
       \E cscalar \in {FALSE} \cup {b \in {TRUE} : subj # "c" /\ "c" \in Range(ord)
                                                   /\ kv["c"] = 1} :
           /\ imported_parameters =
                 [i \in 1..Len(ord) |->
                    [k |-> ord[i],
                     v |-> IF ord[i] = subj THEN SubjectGroup(kv[subj], xv, xfirst)
                           ELSE IF ord[i] = "c" /\ cscalar THEN IntV(1)
                           ELSE PlainGroup(kv[ord[i]])]]
           /\ evaluations \in EvalSample(subj)
    /\ sequence \in DistinctSeqs(GroupNames, MaxSeq)
    \* imported_parameters_ = copy(imported_parameters)
    /\ imported_parameters_ = imported_parameters
    /\ root = <<>> /\ cur = NoGroup /\ si = 0 /\ ri = 0
    /\ mpc = "loops" /\ merr = "none" /\ built = <<>>

\* Parameters is constructed with any sequence of names of the mapping, a
\* repeated name included: groups "a" (with x) and "b", in either order
SeqNames == {"a", "b"}
MatInitAnySequence ==
    /\ \E ord \in DistinctSeqs(SeqNames, Cardinality(SeqNames)) \ {<<>>} :
       \E kv \in IntSample :
       \E xv \in {F_SelfK3, F_ParentAK, T_Marked} :
           /\ "a" \in Range(ord)
           /\ imported_parameters =
                 [i \in 1..Len(ord) |->
                    [k |-> ord[i],
                     v |-> IF ord[i] = "a" THEN SubjectGroup(kv, xv, FALSE)
                           ELSE PlainGroup(kv)]]
           /\ evaluations \in EvalSample("a")
           /\ sequence \in UNION {[1..m -> Range(ord)] : m \in 0..MaxSeq}
    /\ imported_parameters_ = imported_parameters
    /\ root = <<>> /\ cur = NoGroup /\ si = 0 /\ ri = 0
    /\ mpc = "loops" /\ merr = "none" /\ built = <<>>

\* Parameters is constructed from a mapping whose group "a" has two formulas:
\* x = "self.k*3" and y, which reads x; evaluations lists x, y or both, in
\* either order; a plain group "b" may stand before or after "a"
F_SelfX == StrV(<<"self", ".", "x">>)
F_SelfX2 == StrV(<<"self", ".", "x", "*", "2">>)
TwoFormulaGroup(kv, yv) ==
    DictV(<<[k |-> "k", v |-> IntV(kv)], [k |-> "x", v |-> F_SelfK3],
            [k |-> "y", v |-> yv]>>)
EvalOrderSample ==
    {<<>>} \cup {<<[k |-> "a", v |-> l]>> :
                    l \in {<<"x">>, <<"y">>, <<"x", "y">>, <<"y", "x">>}}
MatInitTwoFormulas ==
    /\ \E ord \in DistinctSeqs(SeqNames, Cardinality(SeqNames)) \ {<<>>} :
       \E kv \in IntSample :
       \E yv \in {F_SelfX, F_SelfX2} :
           /\ "a" \in Range(ord)
           /\ imported_parameters =
                 [i \in 1..Len(ord) |->
                    [k |-> ord[i],
                     v |-> IF ord[i] = "a" THEN TwoFormulaGroup(kv, yv)
                           ELSE PlainGroup(kv)]]
           /\ sequence \in DistinctSeqs(Range(ord), MaxSeq)
    /\ evaluations \in EvalOrderSample
    /\ imported_parameters_ = imported_parameters
    /\ root = <<>> /\ cur = NoGroup /\ si = 0 /\ ri = 0
    /\ mpc = "loops" /\ merr = "none" /\ built = <<>>

(***************************************************************************)
(* gmplib.save: create_dir and create_directories.                         *)
(*                                                                         *)
(* A path is the sequence of its components ("./r/Demo" is                 *)
(* <<".", "r", "Demo">>), relative to the working directory.  The          *)
(* filesystem is the set of absolute paths that are directories and the    *)
(* set of those that are regular files; <<>> is the root directory.        *)
(***************************************************************************)
Cwd == <<"w">>

Kind(ds, fs, abs) ==
    IF abs \in ds THEN "dir" ELSE IF abs \in fs THEN "file" ELSE "missing"

Front(p) == SubSeq(p, 1, Len(p) - 1)

\* one component of a path, taken from the directory at
Step(at, c) ==
    IF c = "." THEN at
    ELSE IF c = ".." THEN (IF at = <<>> THEN <<>> ELSE Front(at))
    ELSE Append(at, c)

\* path resolution by the system: every component is looked up in a directory
RECURSIVE Walk(_, _, _, _)
Walk(ds, fs, at, comps) ==
    IF comps = <<>> THEN [kind |-> Kind(ds, fs, at), at |-> at]
    ELSE IF Kind(ds, fs, at) = "file" THEN [kind |-> "notdir", at |-> at]
    ELSE IF Kind(ds, fs, at) = "missing" THEN [kind |-> "missing", at |-> at]
    ELSE Walk(ds, fs, Step(at, Head(comps)), Tail(comps))

\* os.path.exists: True for a directory and for a regular file
exists(ds, fs, p) == Walk(ds, fs, Cwd, p).kind \in {"dir", "file"}

\* os.mkdir: creates the last component only, in a parent that is a directory
mkdir(ds, fs, p) ==
    LET par  == Walk(ds, fs, Cwd, Front(p))
        last == p[Len(p)]
        new  == Append(par.at, last)
    IN  IF par.kind = "missing" THEN [err |-> "FileNotFoundError", dirs |-> ds]
        ELSE IF par.kind \in {"file", "notdir"}
             THEN [err |-> "NotADirectoryError", dirs |-> ds]
        ELSE IF last \in {".", ".."} \/ Kind(ds, fs, new) # "missing"
             THEN [err |-> "FileExistsError", dirs |-> ds]
        ELSE [err |-> "none", dirs |-> ds \cup {new}]

NoPath == <<>>

\* create_dir(dir_): the exception (re-raised by both except clauses), the
\* directories afterwards and the value returned
create_dir(ds, fs, p) ==
    IF ~exists(ds, fs, p)
    THEN LET m == mkdir(ds, fs, p)
         IN  IF m.err # "none"
             THEN [err |-> m.err, dirs |-> ds, ret |-> NoPath]
             ELSE [err |-> "none", dirs |-> m.dirs, ret |-> p]
    ELSE [err |-> "none", dirs |-> ds, ret |-> p]

\* results_path_ = ["."] + list(results_path)
results_path_ == <<".">> \o results_path
\* results_dir_ = results_path_ + [results_dir]
results_dir_ == results_path_ \o <<results_dir>>

\* sample of filesystems and arguments
MaxDepth == 2
MaxCalls == 2

Components == {".", "..", "r", "s"}

SeqsUpTo(S, n) == UNION {[1..m -> S] : m \in 0..n}

TreeUniverse ==
    {<<"r">>, <<"w", "r">>, <<"w", "s">>, <<"w", "Demo">>, <<"w", "r", "s">>,
     <<"w", "r", "Demo">>, <<"w", "r", "s", "Demo">>}

TreeSample ==
    {{<<>>, Cwd} \cup t : t \in {u \in SUBSET TreeUniverse :
                                   \A q \in u : Len(q) > 1 =>
                                       Front(q) \in u \cup {Cwd}}}

FileSampleIn(ds) ==
    {{}} \cup {{f} : f \in {g \in TreeUniverse \ ds : Front(g) \in ds}}

DirInit ==
    /\ dirs \in TreeSample
    /\ regfiles \in FileSampleIn(dirs)
    /\ \/ /\ dop = "create_dir"
          /\ dir_ \in SeqsUpTo(Components \cup {"Demo"}, MaxDepth) \ {<<>>}
          /\ results_path = <<>> /\ results_dir = "Demo"
          /\ dpc = "call"
       \/ /\ dop = "create_directories"
          /\ results_path \in SeqsUpTo(Components, MaxDepth)
          /\ results_dir = "Demo"
          /\ dir_ = NoPath
          /\ dpc = "parent"
    /\ dcalls = 0 /\ derr = "none" /\ dret = NoPath

\* a call create_dir(dir_) by the program, the first or a repeated one
CreateDir ==
    /\ dop = "create_dir" /\ dpc \in {"call", "returned"} /\ dcalls < MaxCalls
    /\ LET r == create_dir(dirs, regfiles, dir_)
       IN  IF r.err # "none"
           THEN /\ dpc' = "raised" /\ derr' = r.err
                /\ UNCHANGED <<dirs, dret, dcalls>>
           ELSE /\ dirs' = r.dirs /\ dret' = r.ret /\ dcalls' = dcalls + 1
                /\ dpc' = "returned"
                /\ UNCHANGED derr
    /\ UNCHANGED <<regfiles, dop, dir_, results_path, results_dir>>
    /\ UNCHANGED notDirVars

\* create_directories: create_dir(join(*results_path_))
CreateParent ==
    /\ dop = "create_directories" /\ dpc = "parent"
    /\ LET r == create_dir(dirs, regfiles, results_path_)
       IN  IF r.err # "none"
           THEN /\ dpc' = "raised" /\ derr' = r.err
                /\ UNCHANGED dirs
           ELSE /\ dirs' = r.dirs /\ dpc' = "target"
                /\ UNCHANGED derr
    /\ UNCHANGED <<regfiles, dop, dir_, results_path, results_dir, dcalls, dret>>
    /\ UNCHANGED notDirVars

\* create_directories: return create_dir(join(*results_dir_))
CreateTarget ==
    /\ dop = "create_directories" /\ dpc = "target"
    /\ LET r == create_dir(dirs, regfiles, results_dir_)
       IN  IF r.err # "none"
           THEN /\ dpc' = "raised" /\ derr' = r.err
                /\ UNCHANGED <<dirs, dret>>
           ELSE /\ dirs' = r.dirs /\ dret' = r.ret /\ dpc' = "returned"
                /\ UNCHANGED derr
    /\ UNCHANGED <<regfiles, dop, dir_, results_path, results_dir, dcalls>>
    /\ UNCHANGED notDirVars

DirNext == CreateDir \/ CreateParent \/ CreateTarget

DirIdle ==
    /\ dirs = {} /\ regfiles = {} /\ dop = "idle" /\ dir_ = NoPath
    /\ results_path = <<>> /\ results_dir = "" /\ dcalls = 0
    /\ dpc = "idle" /\ derr = "none" /\ dret = NoPath

(***************************************************************************)
(* gmplib.plot: GraphingBase.create_figure; gmplib.save: export_plots and  *)
(* export_plot, called with fig_dict = fdict.                              *)
(*                                                                         *)
(* A figure is the number of the plt.figure() call that made it.  A file   *)
(* type is a str, a sequence of tokens as above; the argument file_types   *)
(* is a record [t, s, items]: t is "str", "list" or "tuple", s the text of *)
(* a str and items the elements of a list or tuple.                        *)
(***************************************************************************)
MaxFigs == 2

FigNames == {"f1", "f2"}

\* self.fdict.setdefault(fig_name, fig): the first figure of a name is kept
FdictKeepFirst(d, fig_name, fig) ==
    IF Has(d, fig_name) THEN d ELSE Put(d, fig_name, fig)

\* self.fdict.update({fig_name: fig})
FdictUpdate(d, fig_name, fig) == Put(d, fig_name, fig)

\* create_figure(fig_name): fig = plt.figure(); fdict.update; return fig
CreateFigure ==
    /\ ppc = "figures" /\ nfigs < MaxFigs
    /\ \E fig_name \in FigNames :
         LET fig == nfigs + 1
         IN  /\ nfigs' = fig
             /\ fdict' = FdictUpdate(fdict, fig_name, fig)
             /\ returned' = Append(returned, [fig_name |-> fig_name, fig |-> fig])
    /\ UNCHANGED <<file_types, suffix, ek, calls, written, ppc, perr>>
    /\ UNCHANGED notPlotVars

StrT(toks) == [t |-> "str", s |-> toks, items |-> <<>>]
ListT(elems) == [t |-> "list", s |-> <<>>, items |-> elems]
TupleT(elems) == [t |-> "tuple", s |-> <<>>, items |-> elems]

TypeSample == {<<"pdf">>, <<"PNG">>}
FileTypesSample ==
    {StrT(ty) : ty \in TypeSample}
    \cup {ListT(l) : l \in DistinctSeqs(TypeSample, 2)}
    \cup {TupleT(l) : l \in DistinctSeqs(TypeSample, 2) \ {<<>>}}
SuffixSample == {"", "_s"}

\* repr of the elements of a tuple, from element i on
RECURSIVE ReprItems(_, _)
ReprItems(elems, i) ==
    IF i > Len(elems) THEN <<>>
    ELSE <<"'">> \o elems[i] \o <<"'">>
         \o (IF i < Len(elems) THEN <<", ">> ELSE <<>>)
         \o ReprItems(elems, i + 1)

\* str(file_types) of a str or a tuple
Str(ft) ==
    IF ft.t = "str" THEN ft.s
    ELSE <<"(">> \o ReprItems(ft.items, 1)
         \o (IF Len(ft.items) = 1 THEN <<",">> ELSE <<>>) \o <<")">>

\* file_types_ = file_types if isinstance(file_types, list) else [str(file_types)]
file_types_ == IF file_types.t = "list" THEN file_types.items ELSE <<Str(file_types)>>

LowerTok(tok) ==
    CASE tok = "PNG" -> "png" [] tok = "PDF" -> "pdf" [] OTHER -> tok
\* file_type.lower()
Lower(toks) == [i \in 1..Len(toks) |-> LowerTok(toks[i])]

\* fig_name_ = f"{fig_name}{suffix}.{file_type.lower()}"
fig_name_(fig_name, sfx, file_type) == <<fig_name, sfx, ".">> \o Lower(file_type)

NoTypes == StrT(<<>>)

\* passes of the two nested loops of export_plots
TotalExports == Len(file_types_) * Len(fdict)

PlotInit ==
    /\ fdict = <<>> /\ nfigs = 0 /\ returned = <<>>
    /\ file_types = NoTypes /\ suffix = "" /\ ek = 0 /\ calls = <<>>
    /\ written = {} /\ ppc = "figures" /\ perr = "none"

\* export_plots(fdict, results_dir, file_types, suffix) is called
ExportBegin ==
    /\ ppc = "figures"
    /\ \E ft \in FileTypesSample : \E sfx \in SuffixSample :
         file_types' = ft /\ suffix' = sfx
    /\ ppc' = "export"
    /\ UNCHANGED <<fdict, nfigs, returned, ek, calls, written, perr>>
    /\ UNCHANGED notPlotVars

\* one pass of the inner loop: export_plot(*fig_dict_item, ...).  savefig
\* writes the file or raises: OSError is logged and re-raised, any other
\* exception (ValueError for a format it does not support) is not caught.
ExportPlot ==
    /\ ppc = "export" /\ ek < TotalExports
    /\ LET file_type     == file_types_[(ek \div Len(fdict)) + 1]
           fig_dict_item == fdict[(ek % Len(fdict)) + 1]
       IN  /\ calls' = Append(calls, [fig_name |-> fig_dict_item.k,
                                      fig |-> fig_dict_item.v,
                                      file_type |-> file_type])
           /\ \E outcome \in {"ok", "OSError", "ValueError"} :
                IF outcome = "ok"
                THEN /\ written' = written \cup
                            {fig_name_(fig_dict_item.k, suffix, file_type)}
                     /\ ek' = ek + 1
                     /\ UNCHANGED <<ppc, perr>>
                ELSE /\ ppc' = "raised" /\ perr' = outcome
                     /\ UNCHANGED <<written, ek>>
    /\ UNCHANGED <<fdict, nfigs, returned, file_types, suffix>>
    /\ UNCHANGED notPlotVars

\* both loops of export_plots are done
ExportReturn ==
    /\ ppc = "export" /\ ek = TotalExports
    /\ ppc' = "returned"
    /\ UNCHANGED <<fdict, nfigs, returned, file_types, suffix, ek, calls,
                   written, perr>>
    /\ UNCHANGED notPlotVars

PlotNext == CreateFigure \/ ExportBegin \/ ExportPlot \/ ExportReturn

PlotIdle ==
    /\ fdict = <<>> /\ nfigs = 0 /\ returned = <<>>
    /\ file_types = NoTypes /\ suffix = "" /\ ek = 0 /\ calls = <<>>
    /\ written = {} /\ ppc = "idle" /\ perr = "none"

(***************************************************************************)
(* gmplib.image: paste_images of CombineRasterImagesVertically,            *)
(* CombineRasterImagesHorizontally and CombinePdfImagesHorizontally, and   *)
(* gmplib.utils: combine_images_vertically.                                *)
(*                                                                         *)
(* An image (or PDF page) is its number in the bundle; size gives the      *)
(* width and height of each.  A paste is [img, x, y]: the image and the    *)
(* offset handed to paste or mergeTranslatedPage.                          *)
(***************************************************************************)
MaxImages == 3

Layouts ==
    {"raster_vertical", "utils_vertical", "raster_horizontal", "pdf_horizontal"}
IsVertical == layout \in {"raster_vertical", "utils_vertical"}

LengthSample == {1, 2}
SizeSample == [w : LengthSample, h : LengthSample]
SpacingSample == {-1, 0, 1, 3}

\* max([...]) of a non-empty list
MaxOf(seq) == CHOOSE m \in Range(seq) : \A v \in Range(seq) : v <= m

\* reduce(lambda x, y: x + y, seq) of a non-empty list
RECURSIVE Reduce(_)
Reduce(seq) == IF Len(seq) = 1 THEN seq[1] ELSE Reduce(Front(seq)) + seq[Len(seq)]

\* list.reverse()
Reverse(seq) == [i \in 1..Len(seq) |-> seq[Len(seq) + 1 - i]]

Widths == [i \in 1..Len(image_list) |-> size[image_list[i]].w]
Heights == [i \in 1..Len(image_list) |-> size[image_list[i]].h]

NoCanvas == [has |-> FALSE, w |-> 0, h |-> 0]
Canvas(w, h) == [has |-> TRUE, w |-> w, h |-> h]

ImageInit ==
    /\ layout \in Layouts
    /\ \E n \in 0..MaxImages :
          /\ image_list = [i \in 1..n |-> i]
          /\ size \in [1..n -> SizeSample]
    /\ spacing \in SpacingSample
    /\ do_align_right \in BOOLEAN
    /\ combo = NoCanvas /\ loop_list = <<>> /\ sizes = <<>>
    /\ offset = 0 /\ ip = 0 /\ pastes = <<>>
    /\ ipc = "start" /\ ierr = "none"

\* paste_images up to its loop: the sizes, the blank canvas, the offset
NewCanvas ==
    /\ ipc = "start"
    /\ IF image_list = <<>>
       \* max() of an empty list
       THEN /\ ipc' = "raised" /\ ierr' = "ValueError"
            /\ UNCHANGED <<combo, loop_list, sizes, offset>>
       ELSE /\ IF IsVertical
               THEN LET x_size  == MaxOf(Widths)
                        y_sizes == Heights
                        y_size  == Reduce(y_sizes) + spacing * (Len(image_list) - 1)
                    IN  /\ combo' = Canvas(x_size, y_size)
                        /\ sizes' = y_sizes
                        /\ loop_list' = image_list
                        /\ offset' = 0
               ELSE IF layout = "raster_horizontal"
               THEN LET y_size  == MaxOf(Heights)
                        x_sizes == Widths
                        x_size  == Reduce(x_sizes) + spacing * (Len(image_list) - 1)
                    IN  /\ combo' = Canvas(x_size, y_size)
                        /\ sizes' = x_sizes
                        /\ loop_list' = image_list
                        /\ offset' = 0
               ELSE LET y_size  == MaxOf(Heights)
                        x_sizes == Reverse(Widths)
                        x_size  == Reduce(x_sizes) + spacing * (Len(image_list) - 1)
                    IN  /\ combo' = Canvas(x_size, y_size)
                        /\ sizes' = x_sizes
                        \* page_list = self.page_list.copy(); page_list.reverse()
                        /\ loop_list' = Reverse(image_list)
                        /\ offset' = x_size
            /\ ipc' = "loop" /\ UNCHANGED ierr
    /\ UNCHANGED <<layout, image_list, size, spacing, do_align_right, ip, pastes>>
    /\ UNCHANGED notImageVars

\* the offsets move on by the size alone: the padding is left out
RasterVStepNoSpacing(y_offset, x_size, image_w, y_size, sp, align) ==
    [x |-> IF align THEN x_size - image_w ELSE 0, y |-> y_offset,
     off |-> y_offset + y_size]

\* x_offset = x_size - image.size[0] if do_align_right else 0
\* paste(image, (x_offset, y_offset)); y_offset += y_size + spacing
RasterVStep(y_offset, x_size, image_w, y_size, sp, align) ==
    [x |-> IF align THEN x_size - image_w ELSE 0, y |-> y_offset,
     off |-> y_offset + y_size + sp]

\* paste(image, (x_offset, 0)); x_offset += x_size + spacing
RasterHStep(x_offset, x_size, sp) ==
    [x |-> x_offset, y |-> 0, off |-> x_offset + x_size + sp]

\* the padding is subtracted in the first pass as well
PdfHStepAlwaysSpacing(x_offset, i_, x_size_, sp) ==
    LET o == x_offset - (x_size_ + sp)
    IN  [x |-> o, y |-> 0, off |-> o]

\* x_offset -= Decimal(x_size_) + Decimal(spacing if i_ > 0 else 0)
\* mergeTranslatedPage(page_, x_offset, 0)
PdfHStep(x_offset, i_, x_size_, sp) ==
    LET o == x_offset - (x_size_ + (IF i_ > 0 THEN sp ELSE 0))
    IN  [x |-> o, y |-> 0, off |-> o]

\* one pass of the loop over zip(list, sizes)
PasteImage ==
    /\ ipc = "loop" /\ ip < Len(loop_list)
    /\ LET image == loop_list[ip + 1]
           step  == IF IsVertical
                    THEN RasterVStep(offset, combo.w, size[image].w,
                                     sizes[ip + 1], spacing, do_align_right)
                    ELSE IF layout = "raster_horizontal"
                    THEN RasterHStep(offset, sizes[ip + 1], spacing)
                    ELSE PdfHStep(offset, ip, sizes[ip + 1], spacing)
       IN  /\ pastes' = Append(pastes, [img |-> image, x |-> step.x, y |-> step.y])
           /\ offset' = step.off
    /\ ip' = ip + 1
    /\ UNCHANGED <<layout, image_list, size, spacing, do_align_right, combo,
                   loop_list, sizes, ipc, ierr>>
    /\ UNCHANGED notImageVars

\* the loop has ended: paste_images returns
PasteReturn ==
    /\ ipc = "loop" /\ ip = Len(loop_list)
    /\ ipc' = "done"
    /\ UNCHANGED <<layout, image_list, size, spacing, do_align_right, combo,
                   loop_list, sizes, offset, ip, pastes, ierr>>
    /\ UNCHANGED notImageVars

ImageNext == NewCanvas \/ PasteImage \/ PasteReturn

ImageIdle ==
    /\ layout = "idle" /\ image_list = <<>> /\ size = <<>> /\ spacing = 0
    /\ do_align_right = FALSE /\ combo = NoCanvas /\ loop_list = <<>>
    /\ sizes = <<>> /\ offset = 0 /\ ip = 0 /\ pastes = <<>>
    /\ ipc = "idle" /\ ierr = "none"

\* read_json_file is called; no Parameters is being constructed
InitLoad == LoadInit /\ MatIdle /\ DirIdle /\ PlotIdle /\ ImageIdle
SpecLoad == InitLoad /\ [][LoadNext]_vars

\* Parameters is constructed; read_json_file is not running
InitMat == MatInit /\ LoadIdle /\ DirIdle /\ PlotIdle /\ ImageIdle
SpecMat == InitMat /\ [][MatNext]_vars

\* Parameters is constructed with a sequence that may repeat a name
InitMatSeq == MatInitAnySequence /\ LoadIdle /\ DirIdle /\ PlotIdle /\ ImageIdle
SpecMatSeq == InitMatSeq /\ [][MatNext]_vars

\* Parameters is constructed from a group with two formulas
InitMatEval == MatInitTwoFormulas /\ LoadIdle /\ DirIdle /\ PlotIdle /\ ImageIdle
SpecMatEval == InitMatEval /\ [][MatNext]_vars

\* create_dir or create_directories is called
InitDir == DirInit /\ LoadIdle /\ MatIdle /\ PlotIdle /\ ImageIdle
SpecDir == InitDir /\ [][DirNext]_vars

\* figures are created on one GraphingBase and exported
InitPlot == PlotInit /\ LoadIdle /\ MatIdle /\ DirIdle /\ ImageIdle
SpecPlot == InitPlot /\ [][PlotNext]_vars

\* images are combined by one of the layouts
InitImage == ImageInit /\ LoadIdle /\ MatIdle /\ DirIdle /\ PlotIdle
SpecImage == InitImage /\ [][ImageNext]_vars

(***************************************************************************)
(* Claims about read_json_file.                                            *)
(***************************************************************************)
FileIndex == 1..Len(files)
AllFilesParse == \A j \in FileIndex : files[j].st = "ok"
GivesKey(j, key) == files[j].st = "ok" /\ Has(files[j].items, key)
GivesGroup(j, key) == GivesKey(j, key) /\ Get(files[j].items, key).t = "dict"
GivesScalar(j, key) == GivesKey(j, key) /\ Get(files[j].items, key).t # "dict"
GivesSubKey(j, grp, key) == GivesGroup(j, grp) /\ Has(Get(files[j].items, grp).g, key)
SubValue(j, grp, key) == Get(Get(files[j].items, grp).g, key)
AllTopValuesGroups ==
    /\ AllFilesParse
    /\ \A j \in FileIndex : \A key \in Range(TopOrder) :
           GivesKey(j, key) => GivesGroup(j, key)
IsLastGivingKey(j, key) ==
    GivesKey(j, key) /\ \A j2 \in FileIndex : j2 > j => ~GivesKey(j2, key)
IsLastGivingSubKey(j, grp, key) ==
    GivesSubKey(j, grp, key)
    /\ \A j2 \in FileIndex : j2 > j => ~GivesSubKey(j2, grp, key)

\* C1: when every top-level value of every file is a group, read_json_file
\* returns, and for every group g and key k that some file defines,
\* merged[g][k] is the value of the last file in list order that defines k
\* inside g; keys of g set by earlier files and not overridden keep their
\* earlier value.
C1_LastFileWinsPerKey ==
    AllTopValuesGroups =>
        /\ lpc # "raised"
        /\ lpc = "returned" =>
              \A grp \in Range(TopOrder) : \A key \in Range(SubOrder) :
                \A j \in FileIndex :
                  IsLastGivingSubKey(j, grp, key) =>
                    /\ Has(lret.d, grp)
                    /\ Get(lret.d, grp).t = "dict"
                    /\ Has(Get(lret.d, grp).g, key)
                    /\ Get(Get(lret.d, grp).g, key) = SubValue(j, grp, key)

\* the later file overrides b alone and a keeps the earlier file's value
C1_Witness ==
    /\ lpc = "returned" /\ AllTopValuesGroups /\ Len(files) = 2
    /\ GivesSubKey(1, "g", "a") /\ GivesSubKey(1, "g", "b")
    /\ ~GivesSubKey(2, "g", "a") /\ GivesSubKey(2, "g", "b")
    /\ SubValue(1, "g", "b") # SubValue(2, "g", "b")
    /\ Get(Get(lret.d, "g").g, "a") = SubValue(1, "g", "a")
    /\ Get(Get(lret.d, "g").g, "b") = SubValue(2, "g", "b")

\* C2: when the last file that gives a top-level key gives it a non-group
\* value, the returned mapping holds exactly that value for the key, whether
\* an earlier file gave the key a scalar or a group.
C2_LaterScalarWins ==
    lpc = "returned" =>
        \A key \in Range(TopOrder) : \A j \in FileIndex :
            (IsLastGivingKey(j, key) /\ GivesScalar(j, key)) =>
                /\ Has(lret.d, key)
                /\ Get(lret.d, key) = Get(files[j].items, key)

\* a scalar of the later file replaces a whole group of the earlier file
C2_Witness ==
    /\ lpc = "returned" /\ Len(files) = 2
    /\ GivesGroup(1, "g") /\ Get(files[1].items, "g").g # <<>>
    /\ GivesScalar(2, "g")
    /\ Get(lret.d, "g") = Get(files[2].items, "g")

\* C3: when an earlier file gives a key a scalar and the last file giving the
\* key gives it a group, the load does not raise and the returned value of
\* the key is that group.
C3_LaterGroupOverScalar ==
    AllFilesParse =>
        \A key \in Range(TopOrder) : \A i \in FileIndex : \A j \in FileIndex :
            (i < j /\ GivesScalar(i, key) /\ GivesGroup(j, key)
                   /\ IsLastGivingKey(j, key)) =>
                /\ lpc # "raised"
                /\ lpc = "returned" =>
                      Has(lret.d, key) /\ Get(lret.d, key) = Get(files[j].items, key)

\* C4: a file that is missing or is no JSON makes the call raise: no mapping
\* is ever returned when a file of the list is bad, the exception is that of
\* the first bad file, and no file after a bad file is ever opened.
C4_AllOrNothing ==
    /\ lret.has => lpc = "returned"
    /\ lpc = "returned" => AllFilesParse
    /\ \A j \in opened : \A i \in FileIndex : i < j => files[i].st = "ok"
    /\ lerr = "FileNotFoundError" =>
          lpc = "raised" /\ files[idx + 1].st = "missing" /\ opened = 1..(idx + 1)
    /\ lerr = "JSONDecodeError" =>
          lpc = "raised" /\ files[idx + 1].st = "malformed" /\ opened = 1..(idx + 1)

\* the second file is malformed: the merge of the first is not returned
C4_Witness ==
    /\ lpc = "raised" /\ lerr = "JSONDecodeError"
    /\ Len(files) = 2 /\ idx = 1 /\ parameters_dict # <<>>
    /\ ~lret.has

(***************************************************************************)
(* Claims about Parameters and ParametersNestedGroup.                      *)
(***************************************************************************)
IsPrefix(a, b) == Len(a) <= Len(b) /\ a = SubSeq(b, 1, Len(a))
NamesPresent == Range(sequence) \subseteq Keys(imported_parameters)
\* the named groups in sequence order, then the others in the mapping's order
ExpectedOrder ==
    sequence \o SelectSeq(KeyList(imported_parameters),
                          LAMBDA name : name \notin Range(sequence))
IsGroup(name) ==
    Has(imported_parameters, name) /\ Get(imported_parameters, name).t = "dict"
Source(name) == Get(imported_parameters, name).g
\* group name has the item x with the given text and x is its evaluated list
EvaluatesX(name, text) ==
    /\ IsGroup(name) /\ Has(Source(name), "x") /\ Get(Source(name), "x") = text
    /\ Has(Source(name), "k")
    /\ EvalList(name) = <<"x">>
LastBuilt == IF built = <<>> THEN "" ELSE built[Len(built)]

\* C5: for a sequence of distinct names present in the mapping, the groups
\* are constructed in the order: the named groups in sequence order, then
\* every remaining group in the mapping's insertion order.
C5_ConstructionOrder ==
    NamesPresent =>
        /\ IsPrefix(built, ExpectedOrder)
        /\ mpc = "returned" => built = ExpectedOrder

\* the mapping's last group is named: it is constructed first, then the
\* other two in the mapping's order
C5_Witness ==
    /\ mpc = "returned" /\ Len(imported_parameters) = 3
    /\ sequence = <<imported_parameters[3].k>>
    /\ built = <<imported_parameters[3].k, imported_parameters[1].k,
                 imported_parameters[2].k>>

\* C6: in a group listed in evaluations every item of the group is an
\* attribute before an evaluated attribute is computed, and an evaluated
\* attribute "self.k*3" holds three times the value of k, wherever k stands
\* in the group's key order; its evaluation does not raise.
C6_SelfFormula ==
    /\ (mpc \in {"group", "raised"} /\ cur.epos > 0) =>
            Keys(cur.src) \subseteq Keys(cur.attrs)
    /\ \A name \in Keys(imported_parameters) :
          EvaluatesX(name, F_SelfK3) =>
            LET triple == IntV(3 * Get(Source(name), "k").n) IN
            /\ (mpc = "raised" /\ LastBuilt = name) => merr = "KeyError"
            /\ (cur.name = name /\ cur.epos = 1) => Get(cur.attrs, "x") = triple
            /\ Has(root, name) => Get(Get(root, name), "x") = triple

\* k = 2 comes after x in the key order and x is 6
C6_Witness ==
    \E name \in Keys(root) :
        /\ EvaluatesX(name, F_SelfK3)
        /\ Source(name)[1].k = "x"
        /\ Get(Source(name), "k") = IntV(2)
        /\ Get(Get(root, name), "x") = IntV(6)

\* C7 as claimed: in a group constructed after group a, the evaluated
\* formula "root.a.k" evaluates to a's value of k.
C7_RootNameReachesRoot ==
    \A name \in Keys(imported_parameters) \ {"a"} :
        (EvaluatesX(name, F_RootAK) /\ Has(root, "a")) =>
            /\ (mpc = "raised" /\ LastBuilt = name) => merr = "KeyError"
            /\ Has(root, name) => Get(Get(root, name), "x") = Get(Get(root, "a"), "k")

\* C7 as amended: the Parameters object is bound to the name parent: in a
\* group constructed after group a, the evaluated formula "parent.a.k"
\* evaluates to a's value of k.
C7_ParentNameReachesRoot ==
    \A name \in Keys(imported_parameters) \ {"a"} :
        (EvaluatesX(name, F_ParentAK) /\ Has(root, "a")) =>
            /\ (mpc = "raised" /\ LastBuilt = name) => merr = "KeyError"
            /\ (cur.name = name /\ cur.epos = 1) =>
                  Get(cur.attrs, "x") = Get(Source("a"), "k")
            /\ Has(root, name) => Get(Get(root, name), "x") = Get(Source("a"), "k")

\* x of a later group holds a's k, which differs from the group's own k
C7_Witness ==
    \E name \in Keys(root) \ {"a"} :
        /\ EvaluatesX(name, F_ParentAK) /\ Has(root, "a")
        /\ Get(Get(root, name), "x") = Get(Get(root, "a"), "k")
        /\ Get(Get(root, name), "x") # Get(Get(root, name), "k")

\* C8: an evaluated formula that references a group of the mapping that is
\* not constructed yet (here "parent.a.k" in a group constructed before
\* group a) yields no value and fails with an UnresolvedReferenceError.
C8_ForwardReferenceError ==
    \A name \in Keys(imported_parameters) \ {"a"} :
        (/\ EvaluatesX(name, F_ParentAK) /\ IsGroup("a")
         /\ cur.name = name /\ ~Has(root, "a")) =>
            /\ cur.epos = 0
            /\ mpc = "raised" => merr = "UnresolvedReferenceError"

\* the evaluated list of group name makes its construction raise: it names
\* an attribute the group does not have, or x is a formula that reads an
\* undefined attribute or is malformed
FailingEvaluation(name) ==
    /\ IsGroup(name)
    /\ \/ EvalList(name) = <<"w">> /\ ~Has(Source(name), "w")
       \/ EvaluatesX(name, F_SelfZ)
       \/ EvaluatesX(name, F_Malformed)

\* C9: when the evaluation of an evaluated attribute of a group raises, the
\* construction of Parameters raises that error: no Parameters object is
\* returned, the group is not attached, and no group is constructed after it.
C9_FailFast ==
    \A name \in Keys(imported_parameters) :
        FailingEvaluation(name) =>
            /\ mpc # "returned"
            /\ ~Has(root, name)
            /\ \A i \in 1..Len(built) : built[i] = name => i = Len(built)
            /\ (cur.name = name /\ RawLoopDone /\ mpc = "raised") =>
                  /\ cur.epos = 0
                  /\ merr = IF EvaluatesX(name, F_Malformed)
                            THEN "SyntaxError" ELSE "AttributeError"

\* the second of three groups fails: the first is attached, the third is
\* never constructed
C9_Witness ==
    /\ mpc = "raised" /\ merr = "SyntaxError"
    /\ FailingEvaluation(cur.name)
    /\ Len(imported_parameters) = 3 /\ Len(built) = 2 /\ Len(root) = 1

\* C10: for a mapping whose top-level values are all groups, the Parameters
\* object returned has exactly one attribute per group name, each group has
\* exactly one attribute per key, and a value that is neither "None" nor a
\* text with the marker sy., under a key that is not evaluated, is stored
\* unchanged.
C10_Structure ==
    (mpc = "returned" /\ \A name \in Keys(imported_parameters) : IsGroup(name)) =>
        /\ Keys(root) = Keys(imported_parameters)
        /\ Len(root) = Len(imported_parameters)
        /\ \A name \in Keys(imported_parameters) :
              /\ Keys(Get(root, name)) = Keys(Source(name))
              /\ Len(Get(root, name)) = Len(Source(name))
              /\ \A i \in 1..Len(Source(name)) :
                    LET item == Source(name)[i] IN
                    (/\ item.v # StrV(<<"None">>)
                     /\ ~(item.v.t = "str" /\ HasMarker(item.v.s))
                     /\ item.k \notin Range(EvalList(name))) =>
                        Get(Get(root, name), item.k) = item.v

\* three groups; the formula text of x, not evaluated, is stored as it is
C10_Witness ==
    /\ mpc = "returned" /\ Len(root) = 3
    /\ \E name \in Keys(root) :
          /\ Get(Source(name), "k") = IntV(2)
          /\ Has(Source(name), "x") /\ Get(Source(name), "x") = F_SelfK3
          /\ Get(Get(root, name), "x") = F_SelfK3
          /\ Get(Get(root, name), "k") = IntV(2)

\* C11: a second-level value equal to the text "None" is stored as None,
\* never as the text, in the group under construction and in every attached
\* group, also when the attribute is listed as evaluated (its evaluation
\* does not raise).
C11_NullSentinel ==
    \A name \in Keys(imported_parameters) :
        IsGroup(name) =>
            \A i \in 1..Len(Source(name)) :
                LET item == Source(name)[i] IN
                item.v = StrV(<<"None">>) =>
                    /\ (cur.name = name /\ cur.pos >= i /\ LastBuilt = name) =>
                          Get(cur.attrs, item.k) = NoneV
                    /\ Has(root, name) => Get(Get(root, name), item.k) = NoneV
                    /\ (mpc = "raised" /\ LastBuilt = name
                            /\ EvalList(name) \in {<<>>, <<item.k>>}) =>
                          merr = "KeyError"

\* x is the text "None", listed as evaluated, and the attached group holds None
C11_Witness ==
    \E name \in Keys(root) :
        /\ IsGroup(name) /\ Has(Source(name), "x")
        /\ Get(Source(name), "x") = StrV(<<"None">>)
        /\ EvalList(name) = <<"x">>
        /\ Get(Get(root, name), "x") = NoneV

\* the text with every marker token deleted
RECURSIVE DeleteMarkers(_)
DeleteMarkers(toks) ==
    IF toks = <<>> THEN <<>>
    ELSE IF Head(toks) = "sy." THEN DeleteMarkers(Tail(toks))
    ELSE <<Head(toks)>> \o DeleteMarkers(Tail(toks))
\* the text with a marker at its start removed
DeletePrefix(toks) == IF toks # <<>> /\ Head(toks) = "sy." THEN Tail(toks) ELSE toks
Marked(val) == val.t = "str" /\ "sy." \in Range(val.s)
\* the value set for item i of the group, before any evaluation
RawAttr(name, i) ==
    IF cur.name = name /\ LastBuilt = name
    THEN Get(cur.attrs, Source(name)[i].k)
    ELSE Get(Get(root, name), Source(name)[i].k)
RawAttrSet(name, i) ==
    /\ IsGroup(name) /\ i \in 1..Len(Source(name))
    /\ Source(name)[i].k \notin Range(EvalList(name))
    /\ \/ cur.name = name /\ LastBuilt = name /\ cur.pos >= i
       \/ cur.name # name /\ Has(root, name)

\* C12: a second-level text is parsed as an expression if and only if it
\* bears the marker sy.; a text without the marker is stored as the text, so
\* a marked text is never stored as its unmarked text is.
C12_MarkerSelectivity ==
    \A name \in {nm \in Keys(imported_parameters) : IsGroup(nm)} :
    \A i \in 1..Len(Source(name)) :
        RawAttrSet(name, i) =>
            LET val == Source(name)[i].v IN
            /\ RawAttr(name, i).t = "sym" <=> Marked(val)
            /\ (val.t = "str" /\ ~Marked(val) /\ val # StrV(<<"None">>)) =>
                  RawAttr(name, i) = val
            /\ Marked(val) => RawAttr(name, i) # StrV(DeleteMarkers(val.s))

\* a text with the marker inside it and not at its start is parsed
C12_Witness ==
    \E name \in {nm \in Keys(root) : IsGroup(nm)} :
    \E i \in 1..Len(Source(name)) :
        /\ RawAttrSet(name, i)
        /\ Source(name)[i].v = T_MarkedInside
        /\ RawAttr(name, i).t = "sym"

\* C13 as claimed: the text parsed is the value with the marker at its start
\* removed and otherwise unchanged, for every marked text.
C13_PrefixStripped ==
    \A name \in {nm \in Keys(imported_parameters) : IsGroup(nm)} :
    \A i \in 1..Len(Source(name)) :
        (RawAttrSet(name, i) /\ Marked(Source(name)[i].v)) =>
            RawAttr(name, i) = SymV(DeletePrefix(Source(name)[i].v.s))

\* C13 as amended: the text parsed is the value with every occurrence of
\* the marker removed, wherever it stands, and otherwise unchanged.
C13_EveryMarkerStripped ==
    \A name \in {nm \in Keys(imported_parameters) : IsGroup(nm)} :
    \A i \in 1..Len(Source(name)) :
        (RawAttrSet(name, i) /\ Marked(Source(name)[i].v)) =>
            RawAttr(name, i) = SymV(DeleteMarkers(Source(name)[i].v.s))

\* "sy.k*sy.2" is parsed as "k*2"
C13_Witness ==
    \E name \in {nm \in Keys(root) : IsGroup(nm)} :
    \E i \in 1..Len(Source(name)) :
        /\ RawAttrSet(name, i)
        /\ Source(name)[i].v = T_MarkedTwice
        /\ RawAttr(name, i) = SymV(<<"k", "*", "2">>)

\* C14: no step of the construction, successful or failed, changes the
\* mapping passed in: its keys, their order and the groups stay as they were.
C14_InputUnchanged == [][imported_parameters' = imported_parameters]_vars

\* two named groups were popped from the copy and the mapping passed in
\* still has its three groups
C14_Witness ==
    /\ mpc = "returned" /\ Len(sequence) = 2
    /\ Len(imported_parameters) = 3 /\ Len(imported_parameters_) = 1
    /\ Keys(root) = Keys(imported_parameters)

HoldsRoot(attrs) == \E i \in 1..Len(attrs) : attrs[i].v = ObjV(<<"parent">>)
HoldsGroup(attrs) ==
    \E i \in 1..Len(attrs) : attrs[i].v.t = "obj" /\ Len(attrs[i].v.s) = 2

C20_GroupConstructedOnce ==
    \A i \in 1..Len(built) : \A j \in 1..Len(built) :
        built[i] = built[j] => i = j

(***************************************************************************)
(* Claims about create_dir and create_directories.                         *)
(***************************************************************************)
IsDirectory(p) == Walk(dirs, regfiles, Cwd, p).kind = "dir"

\* C16: when create_dir(d) has returned, the directory d exists and the
\* value returned is d.
C16_DirectoryOnReturn ==
    (dop = "create_dir" /\ dpc = "returned") =>
        (IsDirectory(dir_) /\ dret = dir_)

PlainNames(p) == \A i \in 1..Len(p) : p[i] \notin {".", ".."}

\* C17: create_directories, called where no regular file is in the way and
\* with a results_path of plain names, ends by returning the target, and
\* then the parent ./<results_path...> and the target
\* ./<results_path...>/<results_dir> are directories, however many trailing
\* components of results_path were missing.
C17_ParentCreated ==
    (/\ dop = "create_directories" /\ dpc \notin {"parent", "target"}
     /\ regfiles = {} /\ PlainNames(results_path)) =>
        (/\ dpc = "returned"
         /\ IsDirectory(results_path_) /\ IsDirectory(results_dir_)
         /\ dret = results_dir_)

(***************************************************************************)
(* Claims about export_plots and create_figure.                            *)
(***************************************************************************)
\* the file types the caller gave
TypesGiven == IF file_types.t = "str" THEN {file_types.s} ELSE Range(file_types.items)

CallsFor(fig_name, fig, file_type) ==
    {i \in 1..Len(calls) : calls[i] = [fig_name |-> fig_name, fig |-> fig,
                                       file_type |-> file_type]}

\* C18: whether file_types is a str, a list or a tuple, every invocation of
\* export_plot is for a file type of file_types, and when export_plots has
\* returned, export_plot was invoked exactly once for every figure of
\* fig_dict and every file type of file_types and its file
\* <fig_name><suffix>.<file type lower-cased> was written.
C18_EveryPairExportedOnce ==
    /\ \A i \in 1..Len(calls) : calls[i].file_type \in TypesGiven
    /\ ppc = "returned" =>
         \A i \in 1..Len(fdict) : \A ty \in TypesGiven :
            /\ Cardinality(CallsFor(fdict[i].k, fdict[i].v, ty)) = 1
            /\ <<fdict[i].k, suffix, ".">> \o Lower(ty) \in written

LastWithName(i) ==
    CHOOSE j \in i..Len(returned) :
        /\ returned[j].fig_name = returned[i].fig_name
        /\ \A m \in (j + 1)..Len(returned) :
              returned[m].fig_name # returned[i].fig_name

C21_NoKeyLost ==
    (lpc = "returned" /\ AllTopValuesGroups) =>
        /\ Keys(lret.d) =
              {grp \in Range(TopOrder) : \E j \in FileIndex : GivesKey(j, grp)}
        /\ \A grp \in Keys(lret.d) :
              Keys(Get(lret.d, grp).g) =
                {key \in Range(SubOrder) :
                    \E j \in FileIndex : GivesSubKey(j, grp, key)}
(***************************************************************************)
(* Further claims about Parameters.                                        *)
(***************************************************************************)
BuiltBefore == {built[i] : i \in 1..(Len(built) - 1)}

\* C22: while the __init__ of a group G runs, the attributes of the root
\* are exactly the groups constructed before G, and G is none of them; so a
\* formula of group "a" that reads "a" through the root ("parent.a.k")
\* raises AttributeError, and no Parameters is returned.
C22_RootDuringEvaluation ==
    /\ mpc = "group" =>
          (Keys(root) = BuiltBefore /\ cur.name \notin Keys(root))
    /\ EvaluatesX("a", F_ParentAK) =>
          /\ mpc # "returned"
          /\ ~Has(root, "a")
          /\ (mpc = "raised" /\ LastBuilt = "a") => merr = "AttributeError"

\* group "a" is constructed second and its formula "parent.a.k" has raised
C22_Witness ==
    /\ EvaluatesX("a", F_ParentAK)
    /\ mpc = "raised" /\ merr = "AttributeError"
    /\ Len(built) = 2 /\ LastBuilt = "a" /\ Keys(root) = {built[1]}
    /\ cur.pos = Len(cur.src) /\ cur.epos = 0

\* the value of k in the mapping's group "a", and the value "self.x" or
\* "self.x*2" has when x is val
KOfA == Get(Source("a"), "k").n
ReadsX(val) ==
    IF Get(Source("a"), "y") = F_SelfX THEN val
    ELSE IF val.t = "int" THEN IntV(val.n * 2)
    ELSE StrV(val.s \o val.s)

\* C23: the evaluated attributes of a group are computed in the order of
\* its evaluated list, each result being stored before the next formula is
\* evaluated: with x = "self.k*3" and y reading x, the list (x, y) gives y
\* from the computed x, the list (y, x) gives y from the text still stored
\* in x, without an error, and then x its computed value.
C23_EvaluationOrder ==
    /\ (mpc = "group" /\ cur.name = "a") =>
          \A i \in 1..Len(EvalList("a")) :
             /\ i <= cur.epos => Get(cur.attrs, EvalList("a")[i]).t # "str" \/
                                   EvalList("a")[i] = "y"
             /\ (i > cur.epos /\ RawLoopDone) =>
                   Get(cur.attrs, EvalList("a")[i]) = Get(Source("a"), EvalList("a")[i])
    /\ mpc # "raised"
    /\ (mpc = "returned" /\ EvalList("a") = <<"x", "y">>) =>
          /\ Get(Get(root, "a"), "x") = IntV(KOfA * 3)
          /\ Get(Get(root, "a"), "y") = ReadsX(IntV(KOfA * 3))
    /\ (mpc = "returned" /\ EvalList("a") = <<"y", "x">>) =>
          /\ Get(Get(root, "a"), "y") = ReadsX(F_SelfK3)
          /\ Get(Get(root, "a"), "x") = IntV(KOfA * 3)

\* y = "self.x*2" was evaluated before x and holds the text of x twice
C23_Witness ==
    /\ mpc = "returned" /\ EvalList("a") = <<"y", "x">>
    /\ Get(Source("a"), "y") = F_SelfX2
    /\ Get(Get(root, "a"), "y") = StrV(F_SelfK3.s \o F_SelfK3.s)
    /\ Get(Get(root, "a"), "x") = IntV(KOfA * 3)

IsScalar(name) ==
    Has(imported_parameters, name) /\ Get(imported_parameters, name).t # "dict"

\* C24: when the mapping has the top-level scalar "c", no Parameters object
\* is returned; the construction raises AttributeError on reaching "c", and
\* by then the groups before "c" in construction order have been
\* constructed and are the attributes of the root, which "c" is not.
C24_ScalarNotMaterialized ==
    IsScalar("c") =>
        /\ mpc # "returned"
        /\ ~Has(root, "c")
        /\ LastBuilt = "c" =>
              /\ mpc = "raised" /\ merr = "AttributeError"
              /\ Keys(root) = BuiltBefore
              /\ IsPrefix(built, ExpectedOrder)

\* a group was constructed, then the scalar "c" was reached
C24_Witness ==
    /\ IsScalar("c") /\ mpc = "raised" /\ merr = "AttributeError"
    /\ Len(built) = 2 /\ LastBuilt = "c" /\ Keys(root) = {built[1]}
    /\ Len(imported_parameters) = 3

(***************************************************************************)
(* Claims about the image layouts.                                         *)
(***************************************************************************)
\* sum of the entries of seq before entry i
RECURSIVE SumBefore(_, _)
SumBefore(seq, i) == IF i <= 1 THEN 0 ELSE SumBefore(seq, i - 1) + seq[i - 1]

NImages == Len(image_list)
PasteOf(i) == pastes[CHOOSE j \in 1..Len(pastes) : pastes[j].img = i]

\* C25: the vertical raster layouts, for a non-empty image list and
\* spacing >= 0, once paste_images is done: the canvas is max(widths) by
\* sum(heights) + spacing*(n-1); image i (counted from 0) is pasted at
\* y = heights before it + i*spacing and at x = 0, or max(widths) - width_i
\* when do_align_right; every pasted rectangle lies inside the canvas, no
\* two overlap, and consecutive images are spacing rows apart.
C25_VerticalLayout ==
    (IsVertical /\ ipc = "done" /\ spacing >= 0) =>
        /\ combo = Canvas(MaxOf(Widths),
                          SumBefore(Heights, NImages + 1) + spacing * (NImages - 1))
        /\ Len(pastes) = NImages
        /\ \A i \in 1..NImages :
              /\ pastes[i].img = i
              /\ pastes[i].y = SumBefore(Heights, i) + (i - 1) * spacing
              /\ pastes[i].x = IF do_align_right THEN MaxOf(Widths) - size[i].w ELSE 0
              /\ 0 <= pastes[i].x /\ pastes[i].x + size[i].w <= combo.w
              /\ 0 <= pastes[i].y /\ pastes[i].y + size[i].h <= combo.h
              /\ i < NImages =>
                    pastes[i + 1].y - (pastes[i].y + size[i].h) = spacing
              /\ \A j \in 1..NImages :
                    i < j => pastes[i].y + size[i].h <= pastes[j].y

\* three images of different widths, aligned right, with padding
C25_Witness ==
    /\ IsVertical /\ ipc = "done" /\ spacing > 0 /\ do_align_right
    /\ NImages = 3 /\ size[1].w # size[2].w /\ size[1].h # size[3].h
    /\ pastes[3].y = size[1].h + size[2].h + 2 * spacing
    /\ \E i \in 1..NImages : pastes[i].x > 0

\* the offsets CombineRasterImagesHorizontally.paste_images gives images
\* of widths ws, from x_offset on
RECURSIVE RasterHOffsets(_, _, _)
RasterHOffsets(ws, sp, x_offset) ==
    IF ws = <<>> THEN <<>>
    ELSE <<x_offset>> \o RasterHOffsets(Tail(ws), sp, RasterHStep(x_offset, Head(ws), sp).off)

\* C26: once paste_images is done, the horizontal PDF layout has translated
\* page i (counted from 0, in bundle order) to x = widths before it +
\* i*spacing, y = 0, on a page of width sum(widths) + spacing*(n-1), the
\* last page first; these are the offsets the horizontal raster layout
\* gives images of the same sizes; and self.page_list is in bundle order.
C26_PdfAgreesWithRaster ==
    /\ (layout = "pdf_horizontal" /\ ipc = "done") =>
          /\ combo = Canvas(SumBefore(Widths, NImages + 1) + spacing * (NImages - 1),
                            MaxOf(Heights))
          /\ Len(pastes) = NImages
          /\ image_list = [i \in 1..NImages |-> i]
          /\ \A i \in 1..NImages :
                /\ pastes[i].img = NImages + 1 - i
                /\ PasteOf(i).x = SumBefore(Widths, i) + (i - 1) * spacing
                /\ PasteOf(i).x = RasterHOffsets(Widths, spacing, 0)[i]
                /\ PasteOf(i).y = 0
    /\ (layout = "raster_horizontal" /\ ipc = "done") =>
          /\ combo = Canvas(SumBefore(Widths, NImages + 1) + spacing * (NImages - 1),
                            MaxOf(Heights))
          /\ \A i \in 1..NImages :
                /\ pastes[i].img = i
                /\ pastes[i].x = RasterHOffsets(Widths, spacing, 0)[i]
                /\ pastes[i].y = 0

\* three pages of different widths: the last one is translated first
C26_Witness ==
    /\ layout = "pdf_horizontal" /\ ipc = "done" /\ spacing > 0
    /\ NImages = 3 /\ size[1].w # size[3].w
    /\ pastes[1] = [img |-> 3, x |-> size[1].w + size[2].w + 2 * spacing, y |-> 0]
    /\ pastes[3] = [img |-> 1, x |-> 0, y |-> 0]

====
